---- MODULE Spec2Model ----
(***************************************************************************)
(* CorBas backend (corbas_backend.py): the fallback semantic classifier,   *)
(* the /health, /analyze and /highlight_pdf handlers and the start-up of   *)
(* the semantic tagger, as a state machine.                                *)
(*                                                                         *)
(* Python strings whose characters matter (lemmas, phrases, page text,     *)
(* colours, JSON strings) are sequences of one-character strings, so that  *)
(* str.lower, str.strip, slicing and substring search are computed.       *)
(***************************************************************************)
EXTENDS Integers, Sequences, FiniteSets, TLC

(***************************************************************************)
(* Python string primitives                                                *)
(***************************************************************************)
UpperLetters ==
    << "A","B","C","D","E","F","G","H","I","J","K","L","M",
       "N","O","P","Q","R","S","T","U","V","W","X","Y","Z" >>

LowerLetters ==
    << "a","b","c","d","e","f","g","h","i","j","k","l","m",
       "n","o","p","q","r","s","t","u","v","w","x","y","z" >>

IndexIn(seq, c) == CHOOSE i \in 1..Len(seq) : seq[i] = c

IsIn(seq, c) == \E i \in 1..Len(seq) : seq[i] = c

\* str.lower on one character
LowerChar(c) == IF IsIn(UpperLetters, c) THEN LowerLetters[IndexIn(UpperLetters, c)] ELSE c

\* str.upper on one character (used to build mixed-case inputs)
UpperChar(c) == IF IsIn(LowerLetters, c) THEN UpperLetters[IndexIn(LowerLetters, c)] ELSE c

\* str.lower()
PyLower(s) == [i \in 1..Len(s) |-> LowerChar(s[i])]

PyUpper(s) == [i \in 1..Len(s) |-> UpperChar(s[i])]

Capitalize(s) == IF s = << >> THEN s ELSE << UpperChar(s[1]) >> \o Tail(s)

(***************************************************************************)
(* get_semantic_fallback: the gazetteers and the cascade                   *)
(***************************************************************************)
emotion_positive ==
    { <<"h","a","p","p","y">>, <<"j","o","y">>,
      <<"d","e","l","i","g","h","t","e","d">>, <<"p","l","e","a","s","e","d">>,
      <<"e","x","c","i","t","e","d">>, <<"l","o","v","e">>,
      <<"w","o","n","d","e","r","f","u","l">> }

emotion_negative ==
    { <<"s","a","d">>, <<"a","n","g","r","y">>,
      <<"f","e","a","r">>, <<"h","a","t","e">>,
      <<"a","n","x","i","o","u","s">>, <<"w","o","r","r","i","e","d">>,
      <<"u","p","s","e","t">>, <<"d","e","p","r","e","s","s","e","d">> }

movement_verbs ==
    { <<"g","o">>, <<"c","o","m","e">>,
      <<"m","o","v","e">>, <<"w","a","l","k">>,
      <<"r","u","n">>, <<"t","r","a","v","e","l">>,
      <<"a","r","r","i","v","e">>, <<"l","e","a","v","e">>,
      <<"e","n","t","e","r">>, <<"e","x","i","t">> }

speech_verbs ==
    { <<"s","a","y">>, <<"t","e","l","l">>,
      <<"s","p","e","a","k">>, <<"t","a","l","k">>,
      <<"c","o","m","m","u","n","i","c","a","t","e">>, <<"d","i","s","c","u","s","s">>,
      <<"m","e","n","t","i","o","n">>, <<"a","s","k">>,
      <<"a","n","s","w","e","r">> }

thought_verbs ==
    { <<"t","h","i","n","k">>, <<"b","e","l","i","e","v","e">>,
      <<"k","n","o","w">>, <<"u","n","d","e","r","s","t","a","n","d">>,
      <<"c","o","n","s","i","d","e","r">>, <<"r","e","a","l","i","z","e">>,
      <<"r","e","m","e","m","b","e","r">>, <<"f","o","r","g","e","t">> }

positive_adj ==
    { <<"g","o","o","d">>, <<"g","r","e","a","t">>,
      <<"e","x","c","e","l","l","e","n","t">>, <<"w","o","n","d","e","r","f","u","l">>,
      <<"a","m","a","z","i","n","g">>, <<"b","e","a","u","t","i","f","u","l">>,
      <<"p","e","r","f","e","c","t">>, <<"n","i","c","e">>,
      <<"f","i","n","e">> }

negative_adj ==
    { <<"b","a","d">>, <<"p","o","o","r">>,
      <<"t","e","r","r","i","b","l","e">>, <<"a","w","f","u","l">>,
      <<"h","o","r","r","i","b","l","e">>, <<"u","g","l","y">>,
      <<"w","r","o","n","g">>, <<"w","o","r","s","e">>,
      <<"w","o","r","s","t">> }

time_words ==
    { <<"t","o","d","a","y">>, <<"t","o","m","o","r","r","o","w">>,
      <<"y","e","s","t","e","r","d","a","y">>, <<"n","o","w">>,
      <<"t","h","e","n">>, <<"s","o","o","n">>,
      <<"l","a","t","e","r">>, <<"b","e","f","o","r","e">>,
      <<"a","f","t","e","r">> }

place_words ==
    { <<"h","e","r","e">>, <<"t","h","e","r","e">>,
      <<"w","h","e","r","e">>, <<"p","l","a","c","e">>,
      <<"l","o","c","a","t","i","o","n">>, <<"h","o","m","e">>,
      <<"s","c","h","o","o","l">>, <<"o","f","f","i","c","e">> }

Gazetteer ==
    emotion_positive \cup emotion_negative \cup movement_verbs \cup speech_verbs
    \cup thought_verbs \cup positive_adj \cup negative_adj \cup time_words
    \cup place_words

\* the part-of-speech default, lines 261-280
PosDefault(pos) ==
    IF pos = "NOUN" THEN "O2"
    ELSE IF pos = "PROPN" THEN "Z3"
    ELSE IF pos = "VERB" THEN "A3+"
    ELSE IF pos = "ADJ" THEN "A5"
    ELSE IF pos = "ADV" THEN "A13"
    ELSE IF pos = "NUM" THEN "N1"
    ELSE IF pos = "ADP" THEN "Z5"
    ELSE IF pos = "DET" THEN "Z5"
    ELSE IF pos = "PRON" THEN "Z8"
    ELSE "Z99"

\* a faulty variant of get_semantic_fallback: the adjective sets are tested before the
\* emotion sets
get_semantic_fallback_AdjFirst(token) ==
    LET pos == token.pos
        lemma == PyLower(token.lemma)
    IN  IF lemma \in positive_adj THEN "A5.1+"
        ELSE IF lemma \in negative_adj THEN "A5.1-"
        ELSE IF lemma \in emotion_positive THEN "E1.1+"
        ELSE IF lemma \in emotion_negative THEN "E1.1-"
        ELSE IF lemma \in movement_verbs THEN "M1"
        ELSE IF lemma \in speech_verbs THEN "Q2.2"
        ELSE IF lemma \in thought_verbs THEN "X2.1"
        ELSE IF lemma \in time_words THEN "T1"
        ELSE IF lemma \in place_words THEN "M7"
        ELSE PosDefault(pos)

get_semantic_fallback(token) ==
    LET pos == token.pos
        lemma == PyLower(token.lemma)
    IN  IF lemma \in emotion_positive THEN "E1.1+"
        ELSE IF lemma \in emotion_negative THEN "E1.1-"
        ELSE IF lemma \in movement_verbs THEN "M1"
        ELSE IF lemma \in speech_verbs THEN "Q2.2"
        ELSE IF lemma \in thought_verbs THEN "X2.1"
        ELSE IF lemma \in positive_adj THEN "A5.1+"
        ELSE IF lemma \in negative_adj THEN "A5.1-"
        ELSE IF lemma \in time_words THEN "T1"
        ELSE IF lemma \in place_words THEN "M7"
        ELSE PosDefault(pos)

\* The inputs of the classifier: every gazetteer word as listed, capitalised and
\* in upper case, and words of no gazetteer; the nine listed tags and others.
OtherLemmas ==
    { << >>, <<"t","a","b","l","e">>, <<"T","h","e">>, <<".">>, <<"4","2">>,
      <<"l","o","v","e","s">>, <<"h","a","p","p","y"," ">> }

Lemmas ==
    Gazetteer \cup { Capitalize(w) : w \in Gazetteer }
    \cup { PyUpper(w) : w \in Gazetteer } \cup OtherLemmas

ListedPos == { "NOUN", "PROPN", "VERB", "ADJ", "ADV", "NUM", "ADP", "DET", "PRON" }

PosTags == ListedPos \cup { "PUNCT", "SYM", "X", "INTJ", "", "noun" }

(***************************************************************************)
(* Bounds                                                                  *)
(***************************************************************************)
\* the longest token sequence the tagging pipeline returns for one text
MaxTokens == 2

\* the most pages of an uploaded document
MaxPages == 2

\* the longest phrase list of one /highlight_pdf request
MaxPhrases == 2

\* the number of request threads (app.run(threaded=True))
NumThreads == 2

Threads == 1..NumThreads

VARIABLES
    fb_token,        \* the token handed to get_semantic_fallback
    fb_result,       \* what it returned ("" before the call)
    HAS_PYMUSAS,     \* the module-level flag, lines 36, 62, 68
    boot,            \* where the module-level start-up code stands
    init_failed,     \* the except branch of lines 65-68 was taken
    ext_registered,  \* the token extension pymusas_tags exists (hasattr, line 106)
    search_ci,       \* the text search of the PDF engine ignores case
    pc,              \* per request thread: idle, in a handler's loop, or done
    resp,            \* per request thread: the response returned
    an,              \* per request thread: the locals of analyze_text
    hl               \* per request thread: the locals of highlight_pdf

vars == << fb_token, fb_result, HAS_PYMUSAS, boot, init_failed, ext_registered,
           search_ci, pc, resp, an, hl >>

fbVars == << fb_token, fb_result >>

bootVars == << HAS_PYMUSAS, boot, init_failed, ext_registered >>

(***************************************************************************)
(* JSON values as Python sees them after json.loads / request.get_json     *)
(***************************************************************************)
JNull == [k |-> "null"]

JBool(b) == [k |-> "bool", b |-> b]

JInt(n) == [k |-> "int", n |-> n]

JStr(s) == [k |-> "str", s |-> s]

JList(items) == [k |-> "list", items |-> items]

\* an object: its key set and the value under "text" (JNull when the key is absent)
JDict(keys, text) == [k |-> "dict", keys |-> keys, text |-> text]

TEXT == <<"t","e","x","t">>

\* needle occurs in hay at offset i (0-based), compared as given
MatchAt(hay, needle, i) ==
    /\ i + Len(needle) <= Len(hay)
    /\ \A j \in 1..Len(needle) : hay[i + j] = needle[j]

IsSubstr(needle, hay) == \E i \in 0..Len(hay) : MatchAt(hay, needle, i)

\* bool(v)
PyTruthy(v) ==
    CASE v.k = "null" -> FALSE
      [] v.k = "bool" -> v.b
      [] v.k = "int"  -> v.n # 0
      [] v.k = "str"  -> v.s # << >>
      [] v.k = "list" -> v.items # << >>
      [] v.k = "dict" -> v.keys # {}

\* `'text' in v` raises TypeError: v is not a container
ContainsRaises(v) == v.k \in { "null", "bool", "int" }

\* `'text' in v` for a container v
PyContainsText(v) ==
    CASE v.k = "dict" -> "text" \in v.keys
      [] v.k = "list" -> \E i \in 1..Len(v.items) : v.items[i] = JStr(TEXT)
      [] v.k = "str"  -> IsSubstr(TEXT, v.s)

(***************************************************************************)
(* Responses                                                               *)
(***************************************************************************)
\* body: "error" ({error}), "health", "analysis", "pdf"; flag: the pymusas /
\* has_pymusas field (FALSE where the body has none); n: num_tokens
Response(status, body, flag, n) == [status |-> status, body |-> body, flag |-> flag, n |-> n]

NoResp == Response(0, "none", FALSE, 0)

ErrorResp(status) == Response(status, "error", FALSE, 0)

(***************************************************************************)
(* Start-up, lines 30-71                                                   *)
(***************************************************************************)
NextBoot(b) ==
    CASE b = "imports"  -> "lexicon"
      [] b = "lexicon"  -> "ranker"
      [] b = "ranker"   -> "rules"
      [] b = "rules"    -> "add_pipe"
      [] b = "add_pipe" -> "set_flag"

\* one statement of the try block (lines 38-61) completes
StartupStepOk ==
    /\ boot \in { "imports", "lexicon", "ranker", "rules", "add_pipe" }
    /\ boot' = NextBoot(boot)
    /\ ext_registered' = (ext_registered \/ boot = "add_pipe")
    /\ UNCHANGED << HAS_PYMUSAS, init_failed >>

\* line 62
StartupSetFlag ==
    /\ boot = "set_flag"
    /\ HAS_PYMUSAS' = TRUE
    /\ boot' = "ready"
    /\ UNCHANGED << init_failed, ext_registered >>

\* a statement of the try block raises: lines 65-68. The tagger's constructor
\* may have registered the token extension before add_pipe raised.
StartupExcept(reg) ==
    /\ boot \in { "imports", "lexicon", "ranker", "rules", "add_pipe" }
    /\ reg => boot = "add_pipe"
    /\ HAS_PYMUSAS' = FALSE
    /\ init_failed' = TRUE
    /\ ext_registered' = reg
    /\ boot' = "ready"

Startup ==
    /\ \/ StartupStepOk
       \/ StartupSetFlag
       \/ \E reg \in BOOLEAN : StartupExcept(reg)
    /\ UNCHANGED << fbVars, search_ci, pc, resp, an, hl >>

(***************************************************************************)
(* /health, lines 74-84                                                    *)
(***************************************************************************)
\* a faulty variant of Health: the handler re-probes the tagger and stores the outcome
Health_Reprobe(t) ==
    /\ boot = "ready"
    /\ pc[t] = "idle"
    /\ HAS_PYMUSAS' = ext_registered
    /\ resp' = [resp EXCEPT ![t] = Response(200, "health", ext_registered, 0)]
    /\ pc' = [pc EXCEPT ![t] = "done"]
    /\ UNCHANGED << fbVars, boot, init_failed, ext_registered, search_ci, an, hl >>

Health(t) ==
    /\ boot = "ready"
    /\ pc[t] = "idle"
    /\ resp' = [resp EXCEPT ![t] = Response(200, "health", HAS_PYMUSAS, 0)]
    /\ pc' = [pc EXCEPT ![t] = "done"]
    /\ UNCHANGED << fbVars, bootVars, search_ci, an, hl >>

(***************************************************************************)
(* /analyze, lines 87-139                                                  *)
(***************************************************************************)
\* the request body before parsing: no body at all, bytes that are no JSON, or
\* a JSON value
NoBody == [k |-> "absent"]

BadJson == [k |-> "malformed"]

\* request.get_json(), line 91: the parsed value, or an HTTP exception (which is
\* an Exception, so line 135 catches it). Without a JSON body it raises or
\* returns None, as the installed Flask decides.
GetJson(body) ==
    CASE body.k = "absent"    -> { [raised |-> TRUE, data |-> JNull],
                                   [raised |-> FALSE, data |-> JNull] }
      [] body.k = "malformed" -> { [raised |-> TRUE, data |-> JNull] }
      [] OTHER                -> { [raised |-> FALSE, data |-> body] }

\* the locals of analyze_text; ran: nlp(text) was called (line 101)
AnIdle == [body |-> [k |-> "none"], doc |-> << >>, i |-> 0, tokens |-> << >>, ran |-> FALSE]

\* a faulty variant of PrimarySemantic: the last candidate is taken
PrimarySemantic_Last(flag, hasattr, token) ==
    IF flag /\ hasattr
    THEN [semantic |-> IF token.tags # << >> THEN token.tags[Len(token.tags)] ELSE "Z99",
          via |-> "pymusas"]
    ELSE [semantic |-> get_semantic_fallback(token), via |-> "fallback"]

\* lines 106-110; via records which branch computed the code
PrimarySemantic(flag, hasattr, token) ==
    IF flag /\ hasattr
    THEN [semantic |-> IF token.tags # << >> THEN token.tags[1] ELSE "Z99",
          via |-> "pymusas"]
    ELSE [semantic |-> get_semantic_fallback(token), via |-> "fallback"]

\* line 93 when it does not raise: `not data or 'text' not in data`
MissingText(data) == ~PyTruthy(data) \/ ~PyContainsText(data)

\* lines 90-101: from the request to the tagged document, or an early return.
\* doc is what nlp(text) returns and pipe_ok whether it returns at all.
AnalyzeBegin(t, body, gj, doc, pipe_ok) ==
    /\ boot = "ready"
    /\ pc[t] = "idle"
    /\ gj \in GetJson(body)
    /\ LET data == gj.data
           early(r) ==
               /\ resp' = [resp EXCEPT ![t] = r]
               /\ pc' = [pc EXCEPT ![t] = "done"]
               /\ an' = [an EXCEPT ![t] = [AnIdle EXCEPT !.body = body]]
               /\ doc = << >> /\ pipe_ok
       IN  IF gj.raised THEN early(ErrorResp(500))
           ELSE IF ~PyTruthy(data) THEN early(ErrorResp(400))
           ELSE IF ContainsRaises(data) THEN early(ErrorResp(500))
           ELSE IF MissingText(data) THEN early(ErrorResp(400))
           \* data['text'] on a str or a list raises TypeError
           ELSE IF data.k # "dict" THEN early(ErrorResp(500))
           \* len(text) or nlp(text) on a value that is no str raises
           ELSE IF data.text.k # "str" THEN early(ErrorResp(500))
           ELSE /\ Len(doc) <= Len(data.text.s)
                /\ ext_registered \/ \A i \in 1..Len(doc) : doc[i].tags = << >>
                /\ IF pipe_ok
                   THEN /\ pc' = [pc EXCEPT ![t] = "an_loop"]
                        /\ resp' = resp
                        /\ an' = [an EXCEPT ![t] =
                                    [body |-> body, doc |-> doc, i |-> 0,
                                     tokens |-> << >>, ran |-> TRUE]]
                   ELSE /\ doc = << >>
                        /\ pc' = [pc EXCEPT ![t] = "done"]
                        /\ resp' = [resp EXCEPT ![t] = ErrorResp(500)]
                        /\ an' = [an EXCEPT ![t] =
                                    [AnIdle EXCEPT !.body = body, !.ran = TRUE]]
    /\ UNCHANGED << fbVars, bootVars, search_ci, hl >>

\* one iteration of the loop of lines 105-124
AnalyzeToken(t) ==
    /\ pc[t] = "an_loop"
    /\ an[t].i < Len(an[t].doc)
    /\ LET token == an[t].doc[an[t].i + 1]
           primary == PrimarySemantic(HAS_PYMUSAS, ext_registered, token)
           token_data == [pos |-> token.pos, lemma |-> token.lemma,
                          semantic |-> primary.semantic, via |-> primary.via]
       IN  an' = [an EXCEPT ![t].tokens = Append(@, token_data), ![t].i = @ + 1]
    /\ UNCHANGED << fbVars, bootVars, search_ci, pc, resp, hl >>

\* lines 126-133
AnalyzeRespond(t) ==
    /\ pc[t] = "an_loop"
    /\ an[t].i = Len(an[t].doc)
    /\ resp' = [resp EXCEPT ![t] =
                  Response(200, "analysis", HAS_PYMUSAS, Len(an[t].tokens))]
    /\ pc' = [pc EXCEPT ![t] = "done"]
    /\ UNCHANGED << fbVars, bootVars, search_ci, an, hl >>

(***************************************************************************)
(* /highlight_pdf, lines 142-217                                           *)
(***************************************************************************)
Whitespace == { " " }

RECURSIVE LStrip(_, _)
\* str.lstrip(chars)
LStrip(s, chars) ==
    IF s # << >> /\ s[1] \in chars THEN LStrip(Tail(s), chars) ELSE s

RECURSIVE RStrip(_, _)
RStrip(s, chars) ==
    IF s # << >> /\ s[Len(s)] \in chars THEN RStrip(SubSeq(s, 1, Len(s) - 1), chars) ELSE s

\* str.strip()
PyStrip(s) == RStrip(LStrip(s, Whitespace), Whitespace)

\* s[a:b]
Slice(s, a, b) == SubSeq(s, a + 1, IF b < Len(s) THEN b ELSE Len(s))

HexDigits == << "0","1","2","3","4","5","6","7","8","9","a","b","c","d","e","f" >>

\* int(s, 16) raises ValueError (for the strings of digits and letters used here)
HexRaises(s) == s = << >> \/ \E i \in 1..Len(s) : ~IsIn(HexDigits, LowerChar(s[i]))

RECURSIVE HexInt(_)
\* int(s, 16)
HexInt(s) ==
    IF s = << >> THEN 0
    ELSE 16 * HexInt(SubSeq(s, 1, Len(s) - 1)) + (IndexIn(HexDigits, LowerChar(s[Len(s)])) - 1)

DefaultColor == <<"#","F","F","F","F","0","0">>

\* lines 160-164; the channels are kept as the numerators n of n / 255
ParseColor(field) ==
    LET color_hex == LStrip(IF field.k = "absent" THEN DefaultColor ELSE field.s, {"#"})
        rr == Slice(color_hex, 0, 2)
        gg == Slice(color_hex, 2, 4)
        bb == Slice(color_hex, 4, 6)
    IN  IF HexRaises(rr) \/ HexRaises(gg) \/ HexRaises(bb)
        THEN [raised |-> TRUE, rgb |-> << 0, 0, 0 >>]
        ELSE [raised |-> FALSE, rgb |-> << HexInt(rr), HexInt(gg), HexInt(bb) >>]

\* the form field `phrases`: sent or not, whether json.loads raises on its
\* text, and the JSON value the text parses to when it does not
PhraseField(present, raises, value) == [present |-> present, raises |-> raises, value |-> value]

\* json.loads(request.form.get('phrases', '[]')), lines 154-155
LoadPhrases(field) ==
    IF ~field.present THEN [raised |-> FALSE, value |-> JList(<< >>)]
    ELSE IF field.raises THEN [raised |-> TRUE, value |-> JNull]
    ELSE [raised |-> FALSE, value |-> field.value]

\* page.search_for(needle): the matched regions in reading order, each the
\* offset and length of the matched text; an empty needle matches nothing
Fold(s, ci) == IF ci THEN PyLower(s) ELSE s

Search(text, needle, ci) ==
    IF needle = << >> THEN << >>
    ELSE LET offsets == [i \in 1..Len(text) |-> i - 1]
             hits == SelectSeq(offsets, LAMBDA i : MatchAt(Fold(text, ci), Fold(needle, ci), i))
         IN  [j \in 1..Len(hits) |-> [start |-> hits[j], len |-> Len(needle)]]

\* line 177: phrase.lower().strip()
FirstNeedle(phrase) == PyStrip(PyLower(phrase))

\* a faulty variant of TextInstances: a region already found by the first pass is not
\* taken again
TextInstances_Dedup(text, phrase, ci) ==
    LET first == Search(text, FirstNeedle(phrase), ci)
    IN  first \o SelectSeq(Search(text, phrase, ci),
                           LAMBDA r : \A i \in 1..Len(first) : first[i] # r)

\* lines 180-181: the regions of both passes, first pass first
TextInstances(text, phrase, ci) ==
    Search(text, FirstNeedle(phrase), ci) \o Search(text, phrase, ci)

\* lines 184-192: the annotation added for region inst; src is the position of
\* the phrase in the list (0 for an annotation the uploaded document carried)
Highlight(inst, phrase, rgb, src) ==
    [rect |-> inst, content |-> phrase, stroke |-> rgb, title |-> "CorBas", src |-> src]

\* a faulty variant of AddHighlights: the page's annotation list is assigned, not
\* extended
AddHighlights_Assign(page, insts, phrase, rgb, src) ==
    [page EXCEPT !.annots = [i \in 1..Len(insts) |-> Highlight(insts[i], phrase, rgb, src)]]

\* the loop of lines 183-193 over the regions insts of one page
AddHighlights(page, insts, phrase, rgb, src) ==
    [page EXCEPT !.annots = @ \o [i \in 1..Len(insts) |->
                                    Highlight(insts[i], phrase, rgb, src)]]

\* the locals of highlight_pdf. doc_state: none, open, closed; failed_at: the
\* statement that raised ("none" if none did); out: the document sent back
HlIdle ==
    [req |-> [file |-> "none"], phrases |-> JNull, rgb |-> << 0, 0, 0 >>,
     doc |-> << >>, page_num |-> 0, k |-> 1, total_highlights |-> 0,
     doc_state |-> "none", failed_at |-> "none", out |-> << >>]

\* fitz.open(stream=pdf_bytes, filetype="pdf") raises on no bytes or bytes that
\* are no PDF
OpenRaises(content) == content.k \in { "empty", "corrupt" }

\* lines 145-169: from the request to the open document, or an early return
HighlightBegin(t, req) ==
    /\ boot = "ready"
    /\ pc[t] = "idle"
    /\ LET loaded == LoadPhrases(req.phrases)
           color == ParseColor(req.color)
           early(status, at) ==
               /\ resp' = [resp EXCEPT ![t] = ErrorResp(status)]
               /\ pc' = [pc EXCEPT ![t] = "done"]
               /\ hl' = [hl EXCEPT ![t] = [HlIdle EXCEPT !.req = req, !.failed_at = at]]
       IN  IF req.file = "missing" THEN early(400, "none")
           ELSE IF req.filename = "" THEN early(400, "none")
           ELSE IF loaded.raised THEN early(500, "phrases")
           ELSE IF ~PyTruthy(loaded.value) THEN early(400, "none")
           ELSE IF color.raised THEN early(500, "color")
           ELSE IF OpenRaises(req.content) THEN early(500, "open")
           ELSE /\ pc' = [pc EXCEPT ![t] = "hl_loop"]
                /\ resp' = resp
                /\ hl' = [hl EXCEPT ![t] =
                            [HlIdle EXCEPT !.req = req, !.phrases = loaded.value,
                                           !.rgb = color.rgb, !.doc = req.content.pages,
                                           !.doc_state = "open"]]
    /\ UNCHANGED << fbVars, bootVars, search_ci, an >>

\* a faulty variant of HighlightRaised: the exception is swallowed and the document
\* as annotated so far is sent back
HighlightRaised_Partial(t, doc, at) ==
    /\ resp' = [resp EXCEPT ![t] = Response(200, "pdf", FALSE, 0)]
    /\ pc' = [pc EXCEPT ![t] = "done"]
    /\ hl' = [hl EXCEPT ![t].doc = doc, ![t].failed_at = at, ![t].out = doc]

\* lines 213-217: the except branch, reached from inside the loop or from
\* write/send_file; doc is the document as the failed statement left it
HighlightRaised(t, doc, at) ==
    /\ resp' = [resp EXCEPT ![t] = ErrorResp(500)]
    /\ pc' = [pc EXCEPT ![t] = "done"]
    /\ hl' = [hl EXCEPT ![t].doc = doc, ![t].failed_at = at]

\* One pass of the inner loop body, lines 176-193, for page page_num and the
\* k-th phrase. fault: the engine call that raises in this pass ("none",
\* "search", "annot"); j: the region whose annotation raises.
HighlightPhrase(t, fault, j) ==
    /\ pc[t] = "hl_loop"
    /\ hl[t].page_num < Len(hl[t].doc)
    /\ LET h == hl[t]
           p == h.page_num + 1
           page == h.doc[p]
       IN  IF h.phrases.k # "list"
           \* `for phrase in phrases` over a number raises TypeError
           THEN /\ fault = "none" /\ j = 0
                /\ HighlightRaised(t, h.doc, "iter")
           ELSE LET entry == h.phrases.items[h.k]
                IN  IF entry.k # "str"
                    \* phrase.lower() on a value that is no str raises
                    THEN /\ fault = "none" /\ j = 0
                         /\ HighlightRaised(t, h.doc, "lower")
                    ELSE LET phrase == entry.s
                             text_instances == TextInstances(page.text, phrase, search_ci)
                             with(n) == [h.doc EXCEPT ![p] =
                                           AddHighlights(@, SubSeq(text_instances, 1, n),
                                                         phrase, h.rgb, h.k)]
                             last == h.k = Len(h.phrases.items)
                         IN  CASE fault = "search" ->
                                    /\ j = 0
                                    /\ HighlightRaised(t, h.doc, "search")
                               [] fault = "annot" ->
                                    /\ j \in 1..Len(text_instances)
                                    /\ HighlightRaised(t, with(j - 1), "annot")
                               [] fault = "none" ->
                                    /\ j = 0
                                    /\ hl' = [hl EXCEPT
                                         ![t].doc = with(Len(text_instances)),
                                         ![t].total_highlights = @ + Len(text_instances),
                                         ![t].k = IF last THEN 1 ELSE @ + 1,
                                         ![t].page_num = IF last THEN @ + 1 ELSE @]
                                    /\ UNCHANGED << pc, resp >>
    /\ UNCHANGED << fbVars, bootVars, search_ci, an >>

\* lines 195-211, after the loop: serialize, close, send. fault: "none",
\* "write" (pdf_document.write() raises) or "send" (send_file raises)
HighlightFinish(t, fault) ==
    /\ pc[t] = "hl_loop"
    /\ hl[t].page_num = Len(hl[t].doc)
    /\ CASE fault = "write" -> HighlightRaised(t, hl[t].doc, "write")
         [] fault = "send" ->
              /\ resp' = [resp EXCEPT ![t] = ErrorResp(500)]
              /\ pc' = [pc EXCEPT ![t] = "done"]
              /\ hl' = [hl EXCEPT ![t].doc_state = "closed", ![t].failed_at = "send"]
         [] fault = "none" ->
              /\ resp' = [resp EXCEPT ![t] = Response(200, "pdf", FALSE, 0)]
              /\ pc' = [pc EXCEPT ![t] = "done"]
              /\ hl' = [hl EXCEPT ![t].doc_state = "closed", ![t].out = hl[t].doc]
    /\ UNCHANGED << fbVars, bootVars, search_ci, an >>

\* the thread takes its next request
Finish(t) ==
    /\ pc[t] = "done"
    /\ pc' = [pc EXCEPT ![t] = "idle"]
    /\ resp' = [resp EXCEPT ![t] = NoResp]
    /\ an' = [an EXCEPT ![t] = AnIdle]
    /\ hl' = [hl EXCEPT ![t] = HlIdle]
    /\ UNCHANGED << fbVars, bootVars, search_ci >>

(***************************************************************************)
(* The requests that arrive                                                *)
(***************************************************************************)
Token(lemma, pos, tags) == [lemma |-> lemma, pos |-> pos, tags |-> tags]

LOVE == <<"l","o","v","e">>

WONDERFUL == <<"w","o","n","d","e","r","f","u","l">>

\* what the tagging pipeline may deliver for one token: a lemma, a coarse tag
\* and the ranked candidates of the semantic tagger
TagLists == { << >>, << "E2+", "A1" >> }

Tokens ==
    { Token(w[1], w[2], tags) :
        w \in { << LOVE, "VERB" >>, << <<"T","a","b","l","e">>, "NOUN" >>,
                << WONDERFUL, "ADJ" >> },
        tags \in TagLists }

SeqsUpTo(S, n) == UNION { [1..m -> S] : m \in 0..n }

Docs == SeqsUpTo(Tokens, MaxTokens)

SomeText == <<"I"," ","l","o","v","e"," ","t","h","i","s"," ","t","e","x","t">>

AnalyzeBodies ==
    { NoBody, BadJson, JNull, JBool(FALSE), JBool(TRUE), JInt(0), JInt(5),
      JStr(<< >>), JStr(<<"h","i">>), JStr(SomeText),
      JList(<< >>), JList(<< JInt(1) >>), JList(<< JStr(TEXT) >>),
      JDict({}, JNull), JDict({"corpus_name"}, JNull),
      JDict({"text"}, JStr(<< >>)), JDict({"text"}, JInt(5)),
      JDict({"text"}, JStr(SomeText)), JDict({"text", "corpus_name"}, JStr(SomeText)) }

\* the requests of the many-client server: one rejected and one tagged
AnalyzeBodiesLight == { JDict({"corpus_name"}, JNull), JDict({"text"}, JStr(SomeText)) }

DocsLight == { << Token(LOVE, "VERB", tags) >> : tags \in TagLists }

Page(text, annots) == [text |-> text, annots |-> annots]

\* an annotation the uploaded document already carries
Existing ==
    [rect |-> [start |-> 0, len |-> 1], content |-> << >>, stroke |-> << 0, 0, 0 >>,
     title |-> "", src |-> 0]

Pages == { Page(<<"a"," ","A">>, << >>), Page(<<"b">>, << Existing >>) }

PdfDocs == UNION { [1..m -> Pages] : m \in 1..MaxPages }

Contents ==
    { [k |-> "empty", pages |-> << >>], [k |-> "corrupt", pages |-> << >>] }
    \cup { [k |-> "pdf", pages |-> d] : d \in PdfDocs }

PhraseEntries ==
    { JStr(<<"a">>), JStr(<<"A">>), JStr(<<" ","a">>), JInt(1) }

NoPhrases == PhraseField(FALSE, FALSE, JList(<< >>))

PhraseFields ==
    { NoPhrases, PhraseField(TRUE, TRUE, JNull) }
    \cup { PhraseField(TRUE, FALSE, v) : v \in { JNull, JInt(0), JInt(5), JList(<< >>) } }
    \cup { PhraseField(TRUE, FALSE, JList(l)) :
              l \in UNION { [1..m -> PhraseEntries] : m \in 1..MaxPhrases } }

ColorFields ==
    { [k |-> "absent"], JStr(<<"#","F","F","0","0","0","0">>), JStr(<<"#","F","F","F">>),
      JStr(<<"r","e","d">>) }

HlRequest(file, filename, content, phrases, color) ==
    [file |-> file, filename |-> filename, content |-> content,
     phrases |-> phrases, color |-> color]

HighlightRequests ==
    { HlRequest("missing", "", [k |-> "empty", pages |-> << >>], ph, c) :
        ph \in { NoPhrases, PhraseField(TRUE, FALSE, JList(<< JStr(<<"a">>) >>)) }, c \in ColorFields }
    \cup { HlRequest("present", "", [k |-> "empty", pages |-> << >>], ph, c) :
        ph \in { NoPhrases, PhraseField(TRUE, FALSE, JList(<< JStr(<<"a">>) >>)) }, c \in ColorFields }
    \cup { HlRequest("present", "a.pdf", content, ph, c) :
        content \in Contents, ph \in PhraseFields, c \in ColorFields }

HighlightRequestsLight ==
    { HlRequest("missing", "", [k |-> "empty", pages |-> << >>], NoPhrases,
                [k |-> "absent"]),
      HlRequest("present", "a.pdf",
                [k |-> "pdf", pages |-> << Page(<<"a"," ","A">>, << >>) >>],
                PhraseField(TRUE, FALSE, JList(<< JStr(<<"a">>) >>)), [k |-> "absent"]) }

Faults == { "none", "search", "annot" }

\* the regions one pass of the inner loop can meet: two searches of one page
AnnotIndexes ==
    LET longest == CHOOSE n \in { Len(p.text) : p \in Pages } :
                       \A p \in Pages : Len(p.text) <= n
    IN  0..(2 * longest)

FinishFaults == { "none", "write", "send" }

(***************************************************************************)
(* Specifications                                                          *)
(***************************************************************************)
ServerIdle ==
    /\ pc = [t \in Threads |-> "idle"]
    /\ resp = [t \in Threads |-> NoResp]
    /\ an = [t \in Threads |-> AnIdle]
    /\ hl = [t \in Threads |-> HlIdle]

\* the module is being loaded: line 36 has run
Loading ==
    /\ HAS_PYMUSAS = FALSE
    /\ boot = "imports"
    /\ init_failed = FALSE
    /\ ext_registered = FALSE

NoClassifierCall ==
    /\ fb_token = Token(<< >>, "", << >>)
    /\ fb_result = ""

\* the classifier alone, on every input
InitFallback ==
    /\ fb_token \in { Token(l, p, << >>) : l \in Lemmas, p \in PosTags }
    /\ fb_result = ""
    /\ Loading
    /\ search_ci = TRUE
    /\ ServerIdle

Classify ==
    /\ fb_result = ""
    /\ fb_result' = get_semantic_fallback(fb_token)
    /\ UNCHANGED << fb_token, bootVars, search_ci, pc, resp, an, hl >>

NextFallback == Classify

SpecFallback == InitFallback /\ [][NextFallback]_vars

\* start-up and one client of /analyze
InitAnalyze ==
    /\ NoClassifierCall
    /\ Loading
    /\ search_ci = TRUE
    /\ ServerIdle

NextAnalyze ==
    \/ Startup
    \/ \E body \in AnalyzeBodies : \E gj \in GetJson(body), doc \in Docs, pipe_ok \in BOOLEAN :
          AnalyzeBegin(1, body, gj, doc, pipe_ok)
    \/ AnalyzeToken(1)
    \/ AnalyzeRespond(1)
    \/ Finish(1)

SpecAnalyze == InitAnalyze /\ [][NextAnalyze]_vars

\* one client of /highlight_pdf on a server whose tagger failed to load
InitHighlight ==
    /\ NoClassifierCall
    /\ HAS_PYMUSAS = FALSE
    /\ boot = "ready"
    /\ init_failed = TRUE
    /\ ext_registered = FALSE
    /\ search_ci \in BOOLEAN
    /\ ServerIdle

NextHighlight ==
    \/ \E req \in HighlightRequests : HighlightBegin(1, req)
    \/ \E fault \in Faults, j \in AnnotIndexes : HighlightPhrase(1, fault, j)
    \/ \E fault \in FinishFaults : HighlightFinish(1, fault)
    \/ Finish(1)

SpecHighlight == InitHighlight /\ [][NextHighlight]_vars

\* start-up, then every thread serving any of the three endpoints
Init ==
    /\ NoClassifierCall
    /\ Loading
    /\ search_ci \in BOOLEAN
    /\ ServerIdle

Next ==
    \/ Startup
    \/ \E t \in Threads :
          \/ Health(t)
          \/ \E body \in AnalyzeBodiesLight : \E gj \in GetJson(body), doc \in DocsLight \cup { << >> } :
                AnalyzeBegin(t, body, gj, doc, TRUE)
          \/ AnalyzeToken(t)
          \/ AnalyzeRespond(t)
          \/ \E req \in HighlightRequestsLight : HighlightBegin(t, req)
          \/ \E fault \in Faults, j \in AnnotIndexes : HighlightPhrase(t, fault, j)
          \/ \E fault \in FinishFaults : HighlightFinish(t, fault)
          \/ Finish(t)

Spec == Init /\ [][Next]_vars

(***************************************************************************)
(* The fallback classifier (section 4.1)                                   *)
(***************************************************************************)
\* the rules of section 4.1 in their order
Rules ==
    << [set |-> emotion_positive, code |-> "E1.1+"],
       [set |-> emotion_negative, code |-> "E1.1-"],
       [set |-> movement_verbs,   code |-> "M1"],
       [set |-> speech_verbs,     code |-> "Q2.2"],
       [set |-> thought_verbs,    code |-> "X2.1"],
       [set |-> positive_adj,     code |-> "A5.1+"],
       [set |-> negative_adj,     code |-> "A5.1-"],
       [set |-> time_words,       code |-> "T1"],
       [set |-> place_words,      code |-> "M7"] >>

\* the part-of-speech defaults of section 4.1, rule 10
DefaultTable ==
    [p \in ListedPos |->
        CASE p = "NOUN" -> "O2" [] p = "PROPN" -> "Z3" [] p = "VERB" -> "A3+"
          [] p = "ADJ" -> "A5" [] p = "ADV" -> "A13" [] p = "NUM" -> "N1"
          [] p = "ADP" -> "Z5" [] p = "DET" -> "Z5" [] p = "PRON" -> "Z8"]

\* C1: for every lemma and every tag the classifier returns one code, the code
\* of the first rule whose set holds the lower-cased lemma, and when no set
\* holds it the default of the tag, Z99 for a tag outside the nine.
C1_Cascade ==
    fb_result # "" =>
        LET l == [i \in 1..Len(fb_token.lemma) |-> LowerChar(fb_token.lemma[i])]
            hit == { i \in 1..Len(Rules) : l \in Rules[i].set }
        IN  /\ hit # {} =>
                \E i \in hit : (\A j \in hit : i <= j) /\ fb_result = Rules[i].code
            /\ hit = {} /\ fb_token.pos \in ListedPos =>
                fb_result = DefaultTable[fb_token.pos]
            /\ hit = {} /\ fb_token.pos \notin ListedPos => fb_result = "Z99"

\* a capitalised lemma of two gazetteers, tagged ADJ, was classified by the
\* earlier set
C1_Witness ==
    /\ fb_token.lemma = Capitalize(WONDERFUL)
    /\ fb_token.pos = "ADJ"
    /\ fb_result = "E1.1+"

\* C2: a lemma that is a member of a gazetteer set gets that set's own code,
\* whatever the tag.
C2_OwnCode ==
    fb_result # "" =>
        \A i \in 1..Len(Rules) : fb_token.lemma \in Rules[i].set => fb_result = Rules[i].code

(***************************************************************************)
(* /analyze                                                                *)
(***************************************************************************)
\* C3: in a 200 response of /analyze every token has one record, whose code is
\* the first candidate when the flag is on and the token has candidates, Z99
\* when the flag is on and it has none, and the classifier's result when the
\* flag is off; with the flag on and the candidates available the classifier
\* is not consulted.
C3_PrimarySemantic ==
    \A t \in Threads :
        pc[t] = "done" /\ resp[t].body = "analysis" =>
            /\ resp[t].status = 200
            /\ Len(an[t].tokens) = Len(an[t].doc)
            /\ resp[t].n = Len(an[t].doc)
            /\ \A i \in 1..Len(an[t].doc) :
                 LET tok == an[t].doc[i]
                     rec == an[t].tokens[i]
                 IN  /\ HAS_PYMUSAS /\ ext_registered /\ tok.tags # << >> =>
                            rec.semantic = tok.tags[1] /\ rec.via # "fallback"
                     /\ HAS_PYMUSAS /\ ext_registered /\ tok.tags = << >> =>
                            rec.semantic = "Z99" /\ rec.via # "fallback"
                     /\ ~HAS_PYMUSAS =>
                            rec.semantic = get_semantic_fallback(tok) /\ rec.via = "fallback"

\* a 200 response with the flag on, over a token with two candidates and a
\* token with none
C3_Witness ==
    \E t \in Threads :
        /\ pc[t] = "done" /\ resp[t].body = "analysis" /\ HAS_PYMUSAS
        /\ \E i, j \in 1..Len(an[t].doc) :
              Len(an[t].doc[i].tags) = 2 /\ an[t].doc[j].tags = << >>

\* the body has no `text` key: no body, or a JSON value that is no object, or
\* an object without the key
NoTextKey(body) ==
    \/ body.k \in { "absent", "null", "bool", "int", "str", "list" }
    \/ body.k = "dict" /\ "text" \notin body.keys

\* C4: a request of /analyze whose body has no `text` key is answered 400 with
\* an error body, and the pipeline is not run for it.
C4_MissingText400 ==
    \A t \in Threads :
        pc[t] = "done" /\ NoTextKey(an[t].body) =>
            resp[t] = ErrorResp(400) /\ ~an[t].ran

(***************************************************************************)
(* /highlight_pdf                                                          *)
(***************************************************************************)
HlDone(t) == pc[t] = "done" /\ hl[t].req.file # "none"

\* the phrase list is empty: the field is absent, or it is the empty array
EmptyPhraseList(field) == ~field.present \/ (~field.raises /\ field.value = JList(<< >>))

\* C5: a request with no file field, or an empty uploaded file, or an empty or
\* absent phrase list is answered 400 whatever the colour, and no document is
\* opened.
C5_Rejected400 ==
    \A t \in Threads :
        HlDone(t) /\ ( \/ hl[t].req.file = "missing"
                       \/ hl[t].req.content.k = "empty"
                       \/ EmptyPhraseList(hl[t].req.phrases) ) =>
            resp[t] = ErrorResp(400) /\ hl[t].doc_state = "none"

\* C6: no partial output: a request in which a statement raised ends 500 with
\* an error body and no document; a document is sent only with status 200,
\* after the loop has passed every page and every phrase, nothing having raised.
C6_NoPartialOutput ==
    \A t \in Threads :
        HlDone(t) =>
            /\ resp[t].body \in { "error", "pdf" }
            /\ hl[t].failed_at # "none" => resp[t] = ErrorResp(500) /\ hl[t].out = << >>
            /\ resp[t].body = "error" => hl[t].out = << >>
            /\ resp[t].body = "pdf" =>
                  /\ resp[t].status = 200
                  /\ hl[t].failed_at = "none"
                  /\ hl[t].page_num = Len(hl[t].doc) /\ hl[t].k = 1
                  /\ hl[t].out = hl[t].doc

\* an annotation raised after this request had added annotations
C6_Witness ==
    \E t \in Threads :
        /\ HlDone(t) /\ hl[t].failed_at = "annot" /\ resp[t].status = 500
        /\ \E p \in 1..Len(hl[t].doc) : \E i \in 1..Len(hl[t].doc[p].annots) :
              hl[t].doc[p].annots[i].src # 0

\* C7: a request that opened the document has closed it when the handler
\* returns.
C7_ClosedOnReturn ==
    \A t \in Threads : HlDone(t) /\ hl[t].doc_state # "none" => hl[t].doc_state = "closed"

\* the loop has finished page p (1-based) for the k-th phrase
Processed(h, p, k) == p <= h.page_num \/ (p = h.page_num + 1 /\ k < h.k)

\* the regions of the annotations the k-th phrase added to page p, in order
Added(h, p, k) ==
    LET own == SelectSeq(h.doc[p].annots, LAMBDA a : a.src = k)
    IN  [i \in 1..Len(own) |-> own[i].rect]

Count(seq, x) == Cardinality({ i \in 1..Len(seq) : seq[i] = x })

ValidRequest(req) ==
    /\ req.file = "present" /\ req.filename # "" /\ req.content.k = "pdf"
    /\ req.phrases.present /\ ~req.phrases.raises
    /\ req.phrases.value.k = "list" /\ req.phrases.value.items # << >>
    /\ \A k \in 1..Len(req.phrases.value.items) : req.phrases.value.items[k].k = "str"
    /\ ~ParseColor(req.color).raised

\* neither pass finds the phrase on any page
NoMatch(req, ci) ==
    \A p \in 1..Len(req.content.pages), k \in 1..Len(req.phrases.value.items) :
        LET phrase == req.phrases.value.items[k].s
        IN  /\ Search(req.content.pages[p].text, PyStrip(PyLower(phrase)), ci) = << >>
            /\ Search(req.content.pages[p].text, phrase, ci) = << >>

\* C9: a valid request none of whose phrases matches, and in which the engine
\* raises nothing, ends 200 with no annotation added and the document sent
\* back as uploaded; every document sent back has the pages of the upload.
C9_Unmodified ==
    \A t \in Threads :
        HlDone(t) =>
            /\ ValidRequest(hl[t].req) /\ NoMatch(hl[t].req, search_ci)
               /\ hl[t].failed_at = "none" =>
                  /\ resp[t].status = 200 /\ resp[t].body = "pdf"
                  /\ hl[t].total_highlights = 0
                  /\ hl[t].out = hl[t].req.content.pages
            /\ resp[t].body = "pdf" =>
                  /\ Len(hl[t].out) = Len(hl[t].req.content.pages)
                  /\ \A p \in 1..Len(hl[t].out) :
                        hl[t].out[p].text = hl[t].req.content.pages[p].text

\* a document that carries an annotation came back from a request whose
\* phrase matched nowhere
C9_Witness ==
    \E t \in Threads :
        /\ HlDone(t) /\ resp[t].body = "pdf"
        /\ ValidRequest(hl[t].req) /\ NoMatch(hl[t].req, search_ci)
        /\ \E p \in 1..Len(hl[t].out) : hl[t].out[p].annots # << >>

(***************************************************************************)
(* The flag HAS_PYMUSAS                                                    *)
(***************************************************************************)
\* C10: once start-up has ended the flag is true exactly if the try block
\* completed, no request changes it, and the pymusas field of every /health
\* response and the has_pymusas field of every 200 /analyze response carry
\* that value.
C10_FlagFixedAtStartup ==
    boot = "ready" =>
        /\ HAS_PYMUSAS = ~init_failed
        /\ \A t \in Threads :
              pc[t] = "done" /\ resp[t].body \in { "health", "analysis" } =>
                  resp[t].status = 200 /\ resp[t].flag = ~init_failed

\* the tagger loaded, and while one thread is inside the loop of /analyze
\* another has answered /health
C10_Witness ==
    /\ HAS_PYMUSAS
    /\ \E t1, t2 \in Threads :
          /\ t1 # t2
          /\ pc[t1] = "done" /\ resp[t1].body = "health" /\ resp[t1].flag
          /\ pc[t2] = "done" /\ resp[t2].body = "analysis" /\ resp[t2].flag

====
